---------------------------- MODULE Spec2Model ----------------------------
(***************************************************************************)
(* AudioEngine (src/audio/input.py): the transport, the audio callback,   *)
(* the ring buffer read by get_frame and the output stream.               *)
(*                                                                         *)
(* Two threads.  The GUI thread (src/ui/main_window.py, the widgets'       *)
(* QTimer ticks) issues every engine call, get_frame included, one at a    *)
(* time: pc is its position inside the call in progress.  The PortAudio    *)
(* thread runs _audio_callback while a stream is active: cb.pc is its      *)
(* position inside one invocation.  A step of either thread is one         *)
(* stretch of code between two accesses of shared engine state; the        *)
(* blocks under "with self._lock" are single steps, except under SpecLock, *)
(* where the lock is a variable and the blocks go one ring slot at a time. *)
(*                                                                         *)
(* The streams of sounddevice are records of their state; the devices of  *)
(* the environment include ones that cannot be opened and one whose       *)
(* streams PortAudio may fail to start, abort or close.  The Analyzer     *)
(* (src/audio/analysis.py) is modelled on an object of its own.           *)
(*                                                                         *)
(* Sample blocks are sequences of per-frame values; the channels of a      *)
(* source carry the same value, so the block of a frame is that value on   *)
(* each of its ch channels and the mono mean is the value itself.          *)
(***************************************************************************)
EXTENDS Integers, Sequences, FiniteSets, TLC

\* ------------------------------------------------------------ bounds
\* Largest block size (frames per callback) the GUI thread sets.
MaxBlock == 2
\* Frame count of the longest test file.
MaxFrames == 2
\* Stand-in for the factor 16 of the ring capacity max(block_size*16, 8192).
RingMul == 2
\* Stand-in for the floor 8192 of the ring capacity.
RingMin == 3
\* Stand-in for the modulus 1 << 30 of the stored write cursor.
CursorMod == 8
\* Most streams that stay open after the engine dropped them.
MaxLeaked == 1
\* Longest block handed to Analyzer.compute, and most calls of it on one
\* Analyzer.
MaxAnBlock == 3
MaxCalls == 3

\* ------------------------------------------------- program constants
FftSize == 2048
DefaultSr == 48000

\* ------------------------------------------------------------ helpers
Max(a, b) == IF a >= b THEN a ELSE b
Min(a, b) == IF a <= b THEN a ELSE b

\* int(x) of a quotient num/den, den > 0: truncation toward zero.
Trunc(num, den) == IF num >= 0 THEN num \div den ELSE -((-num) \div den)

\* int(np.ceil(a / b)) for a >= 0, b > 0.
CeilDiv(a, b) == (a + b - 1) \div b

Zeros(n) == [i \in 1..n |-> 0]

AllZero(s) == \A i \in DOMAIN s : s[i] = 0

RECURSIVE Fact(_)
Fact(n) == IF n <= 1 THEN 1 ELSE n * Fact(n - 1)

\* Sample values are multiples of Scale, so that every value the linear
\* interpolation produces for a block of at most MaxBlock frames is whole.
Scale == Fact(MaxBlock)

\* -------------------------------------------------------- environment
\* Paths the GUI thread hands to load_file: 1 is opened by soundfile,
\* 2 only through the audioread fallback, 3 by neither.
Paths == {1, 2, 3}
Native(p) == p = 1
Decodable(p) == p = 2
Rate(p) == IF p = 1 THEN 48000 ELSE 44100
FileLen(p) == IF p = 1 THEN MaxFrames ELSE MaxFrames - 1
Data(p, i) == Scale * (i + 1)

\* Output devices: 1 is stereo at 48000 only, 2 is mono at 44100 only.
Devices == {1, 2}
\* Every index set_output_device_by_index may be given: 3 is an input
\* device (no output channel), 4 is no device (sd.query_devices raises),
\* 5 is stereo at 48000 and PortAudio may fail to start, abort or close its
\* streams.
AllDevices == {1, 2, 3, 4, 5}
QueryOk(d) == d # 4
Flaky(d) == d = 5
\* info["max_output_channels"] and info["default_samplerate"] of a device
\* that can be queried.
MaxOutputChannels(d) == CASE d = 2 -> 1 [] d = 3 -> 0 [] d = 4 -> 0 [] OTHER -> 2
DeviceRate(d) == IF d = 2 THEN 44100 ELSE 48000
\* sd.check_output_settings(device, samplerate, channels) passes; the same
\* settings are those sd.OutputStream(...) opens a stream with.
SettingsOk(d, sr, ch) ==
    QueryOk(d) /\ sr = DeviceRate(d) /\ ch >= 1 /\ ch <= MaxOutputChannels(d)

\* Arguments of seek_seconds, as fractions <<num, den>> of a second.
SeekTimes == {<<-1, 1>>, <<1, 24000>>, <<1, 1>>}
Volumes == {1, 2}
BlockSizes == 1..MaxBlock

NoSource == [file |-> 0, open |-> FALSE, pos |-> 0, tmp |-> FALSE]
NoSnap == [taken |-> FALSE]
IdleCb == [pc |-> "idle", sr_stream |-> 0, sr_src |-> 0, frames |-> 0,
           ch |-> 0, block |-> <<>>, zero_read |-> FALSE, in_load |-> FALSE,
           own |-> 0]
NoCopy == [end |-> 0, start |-> 0, copy |-> <<>>, k |-> 0]
NoOut == [status |-> "none", frames |-> 0, silent |-> TRUE, zero_read |-> FALSE]

VARIABLES
    pc,                 \* GUI thread: position in the engine call in progress
    arg,                \* GUI thread: argument / local of that call
    ret,                \* GUI thread: the last call that ended, and how
    cb,                 \* audio thread: position and locals of the callback
                        \* (zero_read: its read returned no frame; in_load:
                        \* it began while `replacing`; own: the stream that
                        \* invoked it, 0 for out_stream, i for leaked[i])
    outdata,            \* the last callback that ended: whether it wrote the
                        \* output buffer, how many frames, all of them zero,
                        \* and its zero_read
    current_audio_path, sf, sf_sr, playing, eof, tmp_wav_path,
    block_size, rb_size, ring, rb_write, volume,
    device_out, out_channels, sample_rate, stream_sr, analyzer, out_stream,
    leaked,             \* the streams the engine replaced while they were
                        \* still open (abort or close failed), oldest first
    an,                 \* an Analyzer of its own, fed blocks directly
    an_out,             \* what its last compute returned
    pre,                \* engine state when the load_file in progress began
    ring_sr,            \* for each ring slot that holds a sample other than
                        \* zero, the stream rate of the callback that wrote
                        \* it (else 0)
    fed,                \* the rates of the samples other than zero that
                        \* get_frame passed to the Analyzer in place
                        \* (recorded by GetFrameCompute only)
    lock,               \* self._lock: "free", or the thread that holds it
    wr,                 \* audio thread: samples of its block written to the
                        \* ring so far (lines 201-209)
    gf,                 \* GUI thread: the copy get_frame is taking (end and
                        \* start as read at lines 366-367), or the slots a
                        \* reset has filled so far (k)
    replacing,          \* a load_file has begun and play() has not followed
    cb_since,           \* a callback step ran since the last call ended
    seek_raced          \* a source read ran inside the last seek call

vars == <<pc, arg, ret, cb, outdata, current_audio_path, sf, sf_sr, playing,
          eof, tmp_wav_path, block_size, rb_size, ring, rb_write, volume,
          device_out, out_channels, sample_rate, stream_sr, analyzer,
          out_stream, leaked, an, an_out, pre, ring_sr, fed, lock, wr, gf,
          replacing, cb_since, seek_raced>>

engine == <<current_audio_path, sf, sf_sr, playing, eof, tmp_wav_path,
            block_size, rb_size, ring, rb_write, volume>>
device == <<device_out, out_channels, sample_rate, stream_sr, analyzer,
            out_stream, leaked>>
ghost == <<replacing, seek_raced>>
analysis == <<an, an_out>>
rates == <<ring_sr, fed>>
locking == <<lock, wr, gf>>


\* ------------------------------------------------- source (soundfile)
\* SoundFile.read(need) on an open handle: the frames from its position,
\* fewer than need (down to none) at the end of the file.
\* A read that never delivers the last frame of the file.
ReadCountShort(h, need) == Min(need, FileLen(h.file) - 1 - h.pos)

ReadCount(h, need) == Min(need, FileLen(h.file) - h.pos)
ReadData(h, need) == [i \in 1..ReadCount(h, need) |-> Data(h.file, h.pos + i - 1)]

\* ---------------------------------------------------------- resampler
\* Line 157: source frames to read for `frames` output frames.
NeedSrc(frames, sr_stream, sr_src) ==
    IF sr_stream = sr_src THEN frames
    ELSE Max(1, CeilDiv(frames * sr_src, sr_stream))

\* np.interp(x_tgt, x_src, src) at output index i (0-based) of `frames`:
\* x_tgt = linspace(0, n_src-1, frames), x_src = 0, 1, ..., n_src-1.
InterpAt(src, i, frames) ==
    IF frames = 1 THEN src[1]
    ELSE LET num == i * (Len(src) - 1)
             den == frames - 1
             lo  == num \div den
             r   == num % den
         IN IF r = 0 THEN src[lo + 1]
            ELSE src[lo + 1] + ((src[lo + 2] - src[lo + 1]) * r) \div den

\* Lines 171-182: the block after the optional resampling; when the rates
\* differ and at most one frame was read, the zero block is kept.
Resample(src, frames, sr_stream, sr_src) ==
    IF sr_stream # sr_src
    THEN IF Len(src) > 1
         THEN [i \in 1..frames |-> InterpAt(src, i - 1, frames)]
         ELSE Zeros(frames)
    ELSE src

\* Lines 184-190: pad with zeros or trim to exactly `frames`.
PadTrim(s, frames) ==
    IF Len(s) < frames THEN [i \in 1..frames |-> IF i <= Len(s) THEN s[i] ELSE 0]
    ELSE IF Len(s) > frames THEN SubSeq(s, 1, frames)
    ELSE s

\* Lines 193-195.
ApplyVolume(s, vol) == IF vol # 1 THEN [i \in DOMAIN s |-> s[i] * vol] ELSE s

\* -------------------------------------------------------- ring buffer
RingSize(bs) == Max(bs * RingMul, RingMin)
EmptyRing(size) == [i \in 0..(size - 1) |-> 0]

\* A push that clears the whole ring when the block is silent.
RingPushClearing(rng, size, w, mono, frames) ==
    LET idx == w % size
        n   == Min(frames, size)
    IN [j \in 0..(size - 1) |->
           IF AllZero(mono) THEN 0
           ELSE IF (j - idx) % size < n THEN mono[((j - idx) % size) + 1]
           ELSE rng[j]]

\* Lines 201-209: the ring after a callback pushed `mono` (frames long).
RingPush(rng, size, w, mono, frames) ==
    LET idx == w % size
        n   == Min(frames, size)
        end == idx + n
    IN IF end <= size
       THEN [j \in 0..(size - 1) |->
                IF j >= idx /\ j < end THEN mono[j - idx + 1] ELSE rng[j]]
       ELSE LET first == size - idx
            IN [j \in 0..(size - 1) |->
                   IF j >= idx THEN mono[j - idx + 1]
                   ELSE IF j < n - first THEN mono[first + j + 1]
                   ELSE rng[j]]

\* Line 210.
CursorAfter(w, size, frames) == (w + Min(frames, size)) % CursorMod

\* ring[a:b] for 0 <= a <= b <= size.
Slice(rng, a, b) == [i \in 1..(b - a) |-> rng[a + i - 1]]

\* Lines 365-371: the copy get_frame takes under the lock.
RingLast(rng, size, w, n) ==
    LET end   == w % size
        start == (end - n) % size
    IN IF start < end THEN Slice(rng, start, end)
       ELSE Slice(rng, start, size) \o Slice(rng, 0, end)

\* Lines 374-378: a copy of another length is put at the tail of a zero block.
FixLength(samples, bs) ==
    IF Len(samples) # bs
    THEN LET ncopy == Min(Len(samples), bs)
         IN Zeros(bs - ncopy) \o SubSeq(samples, Len(samples) - ncopy + 1, Len(samples))
    ELSE samples

\* get_frame without the second span of a copy that wraps and without the
\* repair of the length.
GetFrameSamplesNoWrap(rng, size, w, bs) ==
    LET end   == w % size
        start == (end - bs) % size
    IN IF start < end THEN Slice(rng, start, end) ELSE Slice(rng, start, size)

GetFrameSamples(rng, size, w, bs) == FixLength(RingLast(rng, size, w, bs), bs)

\* ----------------------------------------------------------- analyzer
NewAnalyzer(sr) == [sample_rate |-> sr, fft_size |-> FftSize]
\* np.fft.rfft(w, n=fft_size) has fft_size // 2 + 1 bins.
SpectrumLen(a) == a.fft_size \div 2 + 1

\* Analyzer (src/audio/analysis.py) at fft_size = 4.  Magnitudes are counted
\* in halves (the window is), a float is rounded down to that grid, and the
\* smoothed flux is kept exactly, as the numerator flux_num of the fraction
\* flux_num / (2 * AnBins * 10^calls).
AnFftSize == 4
AnHop == AnFftSize \div 2
AnBins == AnFftSize \div 2 + 1
\* get_window('hann', 4, fftbins=True) = [0, 0.5, 1, 0.5], in halves.
Window == <<0, 1, 2, 1>>
AnValues == {-1, 0, 1}
Blocks == UNION {[1..n -> AnValues] : n \in 1..MaxAnBlock}

Abs(x) == IF x >= 0 THEN x ELSE -x
Isqrt(n) == CHOOSE r \in 0..n : r * r <= n /\ (r + 1) * (r + 1) > n
RECURSIVE Pow10(_)
Pow10(k) == IF k = 0 THEN 1 ELSE 10 * Pow10(k - 1)
RECURSIVE Log2(_)
Log2(n) == IF n <= 1 THEN 0 ELSE 1 + Log2(n \div 2)

\* Lines 5-14: a new Analyzer (heard: a block that is not all zero was
\* passed to it).
FreshAnalyzer == [buffer |-> Zeros(AnFftSize), prev_mag |-> Zeros(AnBins),
                  flux_num |-> 0, calls |-> 0, heard |-> FALSE]
NoSpectrum == [spectrum |-> <<>>, flux_num |-> 0]

\* Lines 17-23: the buffer after block x (not empty) went in.
ShiftIn(buf, x) ==
    LET n == Len(x)
    IN IF n >= AnHop
       THEN SubSeq(buf, AnHop + 1, AnFftSize) \o SubSeq(x, n - AnHop + 1, n)
       ELSE SubSeq(buf, n + 1, AnFftSize) \o x

\* Lines 25-27: np.abs(np.fft.rfft(buffer * window, n=4)).
Magnitudes(buf) ==
    LET w == [i \in 1..AnFftSize |-> buf[i] * Window[i]]
    IN <<Abs(w[1] + w[2] + w[3] + w[4]),
         Isqrt((w[1] - w[3]) * (w[1] - w[3]) + (w[4] - w[2]) * (w[4] - w[2])),
         Abs(w[1] - w[2] + w[3] - w[4])>>

RECURSIVE SumTo(_, _)
SumTo(f, k) == IF k = 0 THEN 0 ELSE f[k] + SumTo(f, k - 1)

\* The differences summed with their signs, falling magnitudes included.
FluxSumSigned(mag, prev) ==
    SumTo([k \in 1..AnBins |-> mag[k] - prev[k]], AnBins)

\* Lines 29-30: np.sum(np.maximum(0.0, mag - prev_mag)), in halves.
FluxSum(mag, prev) ==
    SumTo([k \in 1..AnBins |-> Max(0, mag[k] - prev[k])], AnBins)

\* A logarithm of the magnitude itself: the bin of a zero magnitude is below
\* zero.
LogPlain(m) == IF m <= 1 THEN -1 ELSE Log2(m) - 1

\* Line 34: np.log1p(mag) of a magnitude of m halves, rounded down to the
\* logarithm to base 2.
Log1p(m) == Log2(2 + m) - 1

\* ------------------------------------------------------ output stream
\* Lines 118-129; a device that cannot be queried is taken for stereo.
PickOutputChannels(d) ==
    IF QueryOk(d) THEN (IF MaxOutputChannels(d) >= 2 THEN 2 ELSE 1) ELSE 2

\* Lines 243-247: the rate the stream falls back to.
FallbackSr(d) == IF QueryOk(d) THEN DeviceRate(d) ELSE DefaultSr

\* The negotiation as it was before the fall back to mono: stereo on every
\* device.
NegotiateStereo(d, sr0) ==
    [sr |-> IF SettingsOk(d, sr0, 2) THEN sr0 ELSE FallbackSr(d), ch |-> 2]

\* A negotiation that keeps the rate asked for when its validation fails.
NegotiateKeepRate(d, sr0) ==
    LET channels == PickOutputChannels(d)
    IN [sr |-> sr0, ch |-> IF SettingsOk(d, sr0, channels) THEN channels ELSE 1]

\* Lines 229-259: the (samplerate, channels) _open_output_stream settles on.
Negotiate(d, sr0) ==
    LET channels == PickOutputChannels(d)
        ok1 == SettingsOk(d, sr0, channels)
        sr  == IF ok1 THEN sr0 ELSE FallbackSr(d)
        ch  == IF ok1 \/ SettingsOk(d, sr, channels) THEN channels ELSE 1
    IN [sr |-> sr, ch |-> ch]

\* A stream is "active" (open and started), "stopped" (open, start()
\* failed), "aborted" (open, halted: its callback raised, or abort() halted
\* it and close() failed) or "closed".
IsOpen(s) == s.state # "closed"

\* Lines 222-227 and 436-441: what abort(ignore_errors=True) and close()
\* leave of stream s.  Neither raises; on a flaky device either may fail,
\* and Pa_CloseStream closes nothing when its own abort fails.
CloseOutcomes(s) ==
    IF IsOpen(s) /\ Flaky(s.dev) /\ Len(leaked) < MaxLeaked
    THEN {[s EXCEPT !.state = "closed"], s,
          [s EXCEPT !.state = IF s.state = "active" THEN "aborted" ELSE s.state]}
    ELSE {[s EXCEPT !.state = "closed"]}

\* Lines 268-276: the streams sd.OutputStream(...) and start() can leave
\* in self.out_stream: none when the constructor raises, a stream that is
\* not started when start() raises.
NewStreams(d, o) ==
    IF ~SettingsOk(d, o.sr, o.ch) THEN {}
    ELSE LET s == [state |-> "active", sr |-> o.sr, ch |-> o.ch,
                   blocksize |-> block_size, dev |-> d]
         IN IF Flaky(d) THEN {s, [s EXCEPT !.state = "stopped"]} ELSE {s}

\* _open_output_stream(sr).  abort() of the stream returns once the
\* callback in flight has ended; no callback runs until the new stream is
\* started, so the function is one step.  (A failed abort is taken to
\* return between two callbacks as well.)
OpenOutputStream(d, sr) ==
    /\ cb.pc = "idle"
    /\ LET o == Negotiate(d, sr)
       IN /\ out_channels' = o.ch
          /\ sample_rate' = o.sr
          /\ stream_sr' = o.sr
          /\ analyzer' = NewAnalyzer(o.sr)
          /\ fed' = {}
          /\ \E old \in CloseOutcomes(out_stream) :
                IF NewStreams(d, o) = {}
                THEN out_stream' = old /\ leaked' = leaked
                ELSE /\ out_stream' \in NewStreams(d, o)
                     /\ leaked' = IF IsOpen(old) THEN Append(leaked, old)
                                  ELSE leaked

\* The _open_output_stream(sr) of this step raised: in the constructor of
\* the stream, or in start().
OpenRaised(d, sr) ==
    NewStreams(d, Negotiate(d, sr)) = {} \/ out_stream'.state = "stopped"

\* ---------------------------------------------------------------- Init
\* AudioEngine.__init__ (lines 32-82) on the default device 1.
Init ==
    /\ pc = "idle" /\ arg = 0 /\ ret = "init"
    /\ cb = IdleCb /\ outdata = NoOut
    /\ current_audio_path = 0 /\ sf = NoSource /\ sf_sr = 0
    /\ playing = FALSE /\ eof = FALSE /\ tmp_wav_path = FALSE
    /\ block_size \in BlockSizes
    /\ rb_size = RingSize(block_size)
    /\ ring = EmptyRing(rb_size)
    /\ rb_write = 0
    /\ ring_sr = EmptyRing(rb_size) /\ fed = {}
    /\ lock = "free" /\ wr = 0 /\ gf = NoCopy
    /\ volume = 1
    /\ device_out = 1
    /\ LET o == Negotiate(1, DefaultSr)
       IN /\ out_channels = o.ch
          /\ sample_rate = o.sr
          /\ stream_sr = o.sr
          /\ analyzer = NewAnalyzer(o.sr)
          /\ out_stream = [state |-> "active", sr |-> o.sr, ch |-> o.ch,
                           blocksize |-> block_size, dev |-> 1]
    /\ leaked = <<>>
    /\ an = FreshAnalyzer /\ an_out = NoSpectrum
    /\ pre = NoSnap
    /\ replacing = FALSE /\ cb_since = FALSE /\ seek_raced = FALSE


\* ------------------------------------------------------ GUI thread
\* What load_file may change, as it was when the call began.
Snapshot == [taken |-> TRUE, sf |-> sf, path |-> current_audio_path,
             playing |-> playing, eof |-> eof, tmp |-> tmp_wav_path]

\* A call of several steps begins: what the previous call left for the
\* caller (ret, frame, pre) is dropped.
Begin(next, a) ==
    /\ pc = "idle"
    /\ pc' = next /\ arg' = a /\ ret' = "busy"
    /\ cb_since' = FALSE

\* A call of several steps ends.
End(r) == pc' = "idle" /\ arg' = 0 /\ ret' = r /\ cb_since' = FALSE

\* A call of one step.
Call(r) ==
    /\ pc = "idle"
    /\ ret' = r /\ cb_since' = FALSE /\ pre' = NoSnap
    /\ UNCHANGED <<pc, arg>>

\* A step inside a call.
Goto(next) == pc' = next /\ UNCHANGED <<arg, ret, pre, cb_since>>

\* The position a seek of the source leaves: the frame asked for; when a
\* read of the callback ran inside the call, the two calls raced on the
\* handle (neither holds a lock, and both release the interpreter lock
\* inside libsndfile) and the position the read left may stand instead.
SeekOutcomes(frm, raced, pos) == IF raced THEN {frm, pos} ELSE {frm}

\* load_file, lines 281-285: the previous source is closed.
LoadClose(p) ==
    /\ Begin("load_tmp", p)
    /\ sf' = IF sf.file # 0 THEN [sf EXCEPT !.open = FALSE] ELSE sf
    /\ pre' = Snapshot /\ replacing' = TRUE
    /\ UNCHANGED <<analysis, locking, rates,
                   cb, outdata, current_audio_path, sf_sr, playing, eof,
                   tmp_wav_path, block_size, rb_size, ring, rb_write, volume,
                   device, seek_raced>>

\* load_file, lines 287-295: the old temporary file goes, the path is set.
LoadTmp ==
    /\ pc = "load_tmp"
    /\ tmp_wav_path' = FALSE
    /\ current_audio_path' = arg
    /\ Goto("load_open")
    /\ UNCHANGED <<analysis, locking, rates,
                   cb, outdata, sf, sf_sr, playing, eof, block_size, rb_size,
                   ring, rb_write, volume, device, ghost>>

\* load_file, lines 298-324: soundfile opens the path, or audioread decodes
\* it into a temporary WAV that soundfile opens, or the call raises.
LoadOpen ==
    /\ pc = "load_open"
    /\ \/ /\ Native(arg)
          /\ sf' = [file |-> arg, open |-> TRUE, pos |-> 0, tmp |-> FALSE]
          /\ Goto("load_sr")
          /\ UNCHANGED tmp_wav_path
       \/ /\ Decodable(arg)
          /\ tmp_wav_path' = TRUE
          /\ sf' = [file |-> arg, open |-> TRUE, pos |-> 0, tmp |-> TRUE]
          /\ Goto("load_sr")
       \/ /\ ~Native(arg) /\ ~Decodable(arg)
          /\ End("load_file_raised")
          /\ UNCHANGED <<sf, tmp_wav_path, pre>>
    /\ UNCHANGED <<analysis, locking, rates,
                   cb, outdata, current_audio_path, sf_sr, playing, eof,
                   block_size, rb_size, ring, rb_write, volume, device, ghost>>

\* load_file, lines 326-327.
LoadSr ==
    /\ pc = "load_sr"
    /\ sf_sr' = Rate(sf.file)
    /\ eof' = FALSE
    /\ Goto("load_stop")
    /\ UNCHANGED <<analysis, locking, rates,
                   cb, outdata, current_audio_path, sf, playing, tmp_wav_path,
                   block_size, rb_size, ring, rb_write, volume, device, ghost>>

\* load_file, lines 328-329 up to the call of the source's seek.
LoadStop ==
    /\ pc = "load_stop"
    /\ playing' = FALSE
    /\ seek_raced' = FALSE
    /\ pc' = "load_seek" /\ arg' = 0
    /\ UNCHANGED <<analysis, locking, rates,
                   ret, pre, cb_since, cb, outdata, current_audio_path, sf,
                   sf_sr, eof, tmp_wav_path, block_size, rb_size, ring,
                   rb_write, volume, device, replacing>>

\* load_file, line 329: the source's seek(0) returns.
LoadSeekRet ==
    /\ pc = "load_seek"
    /\ \E p \in SeekOutcomes(0, seek_raced, sf.pos) : sf' = [sf EXCEPT !.pos = p]
    /\ Goto("load_reopen")
    /\ UNCHANGED <<analysis, locking, rates,
                   cb, outdata, current_audio_path, sf_sr, playing, eof,
                   tmp_wav_path, block_size, rb_size, ring, rb_write, volume,
                   device, ghost>>

\* load_file, line 332.
LoadReopen ==
    /\ pc = "load_reopen"
    /\ OpenOutputStream(device_out, sf_sr)
    /\ IF OpenRaised(device_out, sf_sr)
       THEN End("load_file_stream_raised") /\ pre' = NoSnap
       ELSE Goto("load_ring")
    /\ UNCHANGED <<analysis, locking,
                   ring_sr, cb, outdata, engine, device_out, ghost>>

\* load_file, lines 335-337.
LoadRing ==
    /\ pc = "load_ring"
    /\ ring' = EmptyRing(rb_size)
    /\ rb_write' = 0
    /\ End("load_file")
    /\ pre' = NoSnap
    /\ ring_sr' = EmptyRing(rb_size)
    /\ UNCHANGED <<analysis, locking,
                   fed, cb, outdata, current_audio_path, sf, sf_sr, playing, eof,
                   tmp_wav_path, block_size, rb_size, volume, device, ghost>>

\* play without the test of the source.
PlayAlways ==
    /\ Call("play")
    /\ playing' = TRUE
    /\ replacing' = FALSE
    /\ UNCHANGED <<analysis, locking, rates,
                   cb, outdata, current_audio_path, sf, sf_sr, eof,
                   tmp_wav_path, block_size, rb_size, ring, rb_write, volume,
                   device, seek_raced>>

\* play, lines 339-341.
Play ==
    /\ Call("play")
    /\ playing' = IF sf.file # 0 THEN TRUE ELSE playing
    /\ replacing' = FALSE
    /\ UNCHANGED <<analysis, locking, rates,
                   cb, outdata, current_audio_path, sf, sf_sr, eof,
                   tmp_wav_path, block_size, rb_size, ring, rb_write, volume,
                   device, seek_raced>>

\* pause, lines 343-344.
Pause ==
    /\ Call("pause")
    /\ playing' = FALSE
    /\ UNCHANGED <<analysis, locking, rates,
                   cb, outdata, current_audio_path, sf, sf_sr, eof,
                   tmp_wav_path, block_size, rb_size, ring, rb_write, volume,
                   device, ghost>>

\* Lines 352-353: the frame seek_seconds(t[1] / t[2]) asks the source for.
SeekFrame(t, sr, len) == Min(Max(0, Trunc(t[1] * sr, t[2])), len)

\* seek_seconds, lines 350-354 up to the call of the source's seek: no
\* source, nothing happens; a closed source raises; else the seek begins.
SeekCall(t) ==
    /\ pc = "idle"
    /\ cb_since' = FALSE /\ pre' = NoSnap
    /\ \/ /\ sf.file = 0
          /\ pc' = "idle" /\ arg' = 0 /\ ret' = "done"
       \/ /\ sf.file # 0 /\ ~sf.open
          /\ pc' = "idle" /\ arg' = 0 /\ ret' = "seek_seconds_raised"
       \/ /\ sf.file # 0 /\ sf.open
          /\ pc' = "seek_call" /\ ret' = "busy"
          /\ arg' = SeekFrame(t, sf_sr, FileLen(sf.file))
    /\ seek_raced' = FALSE
    /\ UNCHANGED <<analysis, locking, rates,
                   cb, outdata, engine, device, replacing>>

\* seek_seconds, lines 354-355: the source's seek returns.
SeekRet ==
    /\ pc = "seek_call"
    /\ \E p \in SeekOutcomes(arg, seek_raced, sf.pos) : sf' = [sf EXCEPT !.pos = p]
    /\ eof' = FALSE
    /\ Goto("seek_ring")
    /\ UNCHANGED <<analysis, locking, rates,
                   cb, outdata, current_audio_path, sf_sr, playing,
                   tmp_wav_path, block_size, rb_size, ring, rb_write, volume,
                   device, ghost>>

\* seek_seconds returning without the reset of the ring.
SeekRingNoReset ==
    /\ pc = "seek_ring"
    /\ End("seek_seconds")
    /\ UNCHANGED <<analysis, locking, rates,
                   cb, outdata, engine, device, pre, ghost>>

\* seek_seconds, lines 357-359.
SeekRing ==
    /\ pc = "seek_ring"
    /\ ring' = EmptyRing(rb_size)
    /\ rb_write' = 0
    /\ End("seek_seconds")
    /\ ring_sr' = EmptyRing(rb_size)
    /\ UNCHANGED <<analysis, locking,
                   fed, cb, outdata, current_audio_path, sf, sf_sr, playing, eof,
                   tmp_wav_path, block_size, rb_size, volume, device, pre,
                   ghost>>

\* Line 380: the rates of the samples, other than zero, that get_frame
\* passes to Analyzer.compute.
FrameRates ==
    LET srs == GetFrameSamples(ring_sr, rb_size, rb_write, block_size)
    IN {srs[i] : i \in 1..Len(srs)} \ {0}

\* get_frame, lines 362-381.
\* The call changes no engine state: what it returned is Frame for as long
\* as ret names the call and no callback step followed (~cb_since).  The
\* call that directly follows a load_file or seek_seconds that returned,
\* with no callback step in between, ends as "get_frame_first".
Frame == [samples |-> GetFrameSamples(ring, rb_size, rb_write, block_size),
          spectrum_len |-> SpectrumLen(analyzer)]

GetFrame ==
    /\ pc = "idle"
    /\ ret' = IF ret \in {"load_file", "seek_seconds"} /\ ~cb_since
              THEN "get_frame_first" ELSE "get_frame"
    /\ cb_since' = FALSE /\ pre' = NoSnap
    /\ UNCHANGED <<analysis, locking, rates,
                   pc, arg, cb, outdata, engine, device, ghost>>

\* get_frame, lines 362-381, with the record of what line 380 passes to
\* the Analyzer.
GetFrameCompute ==
    /\ pc = "idle"
    /\ ret' = IF ret \in {"load_file", "seek_seconds"} /\ ~cb_since
              THEN "get_frame_first" ELSE "get_frame"
    /\ fed' = fed \cup FrameRates
    /\ cb_since' = FALSE /\ pre' = NoSnap
    /\ UNCHANGED <<analysis, locking,
                   ring_sr, pc, arg, cb, outdata, engine, device,
                   ghost>>

\* -------------------------------------- GUI thread, step by step
\* The calls that take self._lock, one step for each slot they copy or
\* fill, with the lock as a variable.

\* get_frame that goes to its copy without taking the lock.
GetFrameNoLock ==
    /\ Begin("gf_copy", 0)
    /\ pre' = NoSnap
    /\ gf' = [end |-> rb_write % rb_size,
              start |-> ((rb_write % rb_size) - block_size) % rb_size,
              copy |-> <<>>, k |-> 0]
    /\ UNCHANGED <<analysis, rates, lock, wr, cb, outdata, engine, device,
                   ghost>>

\* get_frame, lines 364-367: the lock is taken, end and start are read.
GetFrameLock ==
    /\ Begin("gf_copy", 0)
    /\ pre' = NoSnap
    /\ lock = "free"
    /\ lock' = "gui"
    /\ gf' = [end |-> rb_write % rb_size,
              start |-> ((rb_write % rb_size) - block_size) % rb_size,
              copy |-> <<>>, k |-> 0]
    /\ UNCHANGED <<analysis, rates, wr, cb, outdata, engine, device, ghost>>

\* Lines 368-371: the number of slots the copy takes.
CopyLen(g) ==
    IF g.start < g.end THEN g.end - g.start ELSE rb_size - g.start + g.end

\* Lines 368-371: one more slot is copied.
GetFrameCopy ==
    /\ pc = "gf_copy"
    /\ Len(gf.copy) < CopyLen(gf)
    /\ gf' = [gf EXCEPT
                !.copy = Append(@, ring[(gf.start + Len(gf.copy)) % rb_size])]
    /\ Goto("gf_copy")
    /\ UNCHANGED <<analysis, rates, lock, wr, cb, outdata, engine, device,
                   ghost>>

\* Line 371, the end of the with block: the lock is released.
GetFrameUnlock ==
    /\ pc = "gf_copy"
    /\ Len(gf.copy) = CopyLen(gf)
    /\ lock' = "free"
    /\ Goto("gf_compute")
    /\ UNCHANGED <<analysis, rates, wr, gf, cb, outdata, engine, device,
                   ghost>>

\* Lines 373-381: the length is repaired, the Analyzer computes, the call
\* returns.
GetFrameReturn ==
    /\ pc = "gf_compute"
    /\ gf' = NoCopy
    /\ End("get_frame")
    /\ UNCHANGED <<analysis, rates, lock, wr, cb, outdata, engine, device,
                   pre, ghost>>

\* load_file, line 335, and seek_seconds, line 357: the lock is taken.
RingResetLock ==
    /\ pc \in {"load_ring", "seek_ring"}
    /\ lock = "free"
    /\ lock' = "gui"
    /\ gf' = NoCopy
    /\ Goto(IF pc = "load_ring" THEN "load_fill" ELSE "seek_fill")
    /\ UNCHANGED <<analysis, rates, wr, cb, outdata, engine, device, ghost>>

\* Lines 336 and 358: ring.fill(0.0), one slot.
RingResetFill ==
    /\ pc \in {"load_fill", "seek_fill"}
    /\ gf.k < rb_size
    /\ ring' = [ring EXCEPT ![gf.k] = 0]
    /\ ring_sr' = [ring_sr EXCEPT ![gf.k] = 0]
    /\ gf' = [gf EXCEPT !.k = @ + 1]
    /\ Goto(pc)
    /\ UNCHANGED <<analysis, fed, lock, wr, cb, outdata, current_audio_path,
                   sf, sf_sr, playing, eof, tmp_wav_path, block_size,
                   rb_size, rb_write, volume, device, ghost>>

\* Lines 337 and 359: the cursor is set to 0, the lock is released, the
\* call returns.
RingResetUnlock ==
    /\ pc \in {"load_fill", "seek_fill"}
    /\ gf.k = rb_size
    /\ rb_write' = 0
    /\ lock' = "free"
    /\ gf' = NoCopy
    /\ End(IF pc = "load_fill" THEN "load_file" ELSE "seek_seconds")
    /\ pre' = IF pc = "load_fill" THEN NoSnap ELSE pre
    /\ UNCHANGED <<analysis, rates, wr, cb, outdata, current_audio_path, sf,
                   sf_sr, playing, eof, tmp_wav_path, block_size, rb_size,
                   ring, volume, device, ghost>>

\* set_block_size, lines 417-420.
SetBlockSizeBegin(b) ==
    /\ Begin("sbs_lock", b)
    /\ pre' = NoSnap
    /\ block_size' = b
    /\ UNCHANGED <<analysis, rates, locking, cb, outdata, current_audio_path,
                   sf, sf_sr, playing, eof, tmp_wav_path, rb_size, ring,
                   rb_write, volume, device, ghost>>

\* Line 422: the lock is taken.
SetBlockSizeLock ==
    /\ pc = "sbs_lock"
    /\ lock = "free"
    /\ lock' = "gui"
    /\ Goto("sbs_resize")
    /\ UNCHANGED <<analysis, rates, wr, gf, cb, outdata, engine, device,
                   ghost>>

\* Lines 423-425: the new ring.
SetBlockSizeResize ==
    /\ pc = "sbs_resize"
    /\ rb_size' = RingSize(block_size)
    /\ ring' = EmptyRing(RingSize(block_size))
    /\ ring_sr' = EmptyRing(RingSize(block_size))
    /\ rb_write' = 0
    /\ Goto("sbs_unlock")
    /\ UNCHANGED <<analysis, fed, locking, cb, outdata, current_audio_path,
                   sf, sf_sr, playing, eof, tmp_wav_path, block_size, volume,
                   device, ghost>>

\* set_block_size that goes on to reopen the stream with the lock held.
SetBlockSizeKeepLock ==
    /\ pc = "sbs_unlock"
    /\ Goto("sbs_reopen")
    /\ UNCHANGED <<analysis, rates, locking, cb, outdata, engine, device,
                   ghost>>

\* Line 425, the end of the with block: the lock is released before the
\* stream is reopened (SbsReopen).
SetBlockSizeUnlock ==
    /\ pc = "sbs_unlock"
    /\ lock' = "free"
    /\ Goto("sbs_reopen")
    /\ UNCHANGED <<analysis, rates, wr, gf, cb, outdata, engine, device,
                   ghost>>

\* set_volume, lines 401-405.
SetVolume(v) ==
    /\ Call("done")
    /\ volume' = v
    /\ UNCHANGED <<analysis, locking, rates,
                   cb, outdata, current_audio_path, sf, sf_sr, playing, eof,
                   tmp_wav_path, block_size, rb_size, ring, rb_write, device,
                   ghost>>

\* set_block_size, lines 417-425.
SetBlockSize(b) ==
    /\ Begin("sbs_reopen", b)
    /\ pre' = NoSnap
    /\ block_size' = b
    /\ rb_size' = RingSize(b)
    /\ ring' = EmptyRing(RingSize(b))
    /\ rb_write' = 0
    /\ ring_sr' = EmptyRing(RingSize(b))
    /\ UNCHANGED <<analysis, locking,
                   fed, cb, outdata, current_audio_path, sf, sf_sr, playing, eof,
                   tmp_wav_path, volume, device, ghost>>

\* set_block_size, lines 427-428.
SbsReopen ==
    /\ pc = "sbs_reopen"
    /\ OpenOutputStream(device_out, out_stream.sr)
    /\ End(IF OpenRaised(device_out, out_stream.sr)
           THEN "set_block_size_raised" ELSE "set_block_size")
    /\ UNCHANGED <<analysis, locking,
                   ring_sr, cb, outdata, engine, device_out, pre, ghost>>

\* set_latency_seconds, lines 407-414: the default latency of the streams
\* to come is set (no part of the engine), the stream is reopened.
SetLatency ==
    /\ pc = "idle"
    /\ OpenOutputStream(device_out, out_stream.sr)
    /\ Call(IF OpenRaised(device_out, out_stream.sr)
            THEN "set_latency_raised" ELSE "set_latency")
    /\ UNCHANGED <<analysis, locking,
                   ring_sr, cb, outdata, engine, device_out, ghost>>

\* Lines 109-113.
TargetSr == IF sf.file # 0 /\ sf_sr # 0 THEN sf_sr ELSE sample_rate

\* set_output_device_by_index, lines 102-114.
SetOutputDevice(d) ==
    /\ pc = "idle"
    /\ device_out' = d
    /\ OpenOutputStream(d, TargetSr)
    /\ Call(IF OpenRaised(d, TargetSr)
            THEN "set_output_device_raised" ELSE "set_output_device")
    /\ UNCHANGED <<analysis, locking, ring_sr, cb, outdata, engine, ghost>>

\* A close that goes to the source without aborting the stream.
CloseStreamSkip ==
    /\ Begin("close_source", 0)
    /\ pre' = NoSnap
    /\ UNCHANGED <<analysis, locking, rates,
                   cb, outdata, engine, device, ghost>>

\* close, lines 436-441: the stream is aborted and closed.
CloseStream ==
    /\ Begin("close_source", 0)
    /\ cb.pc = "idle"
    /\ out_stream' \in CloseOutcomes(out_stream)
    /\ pre' = NoSnap
    /\ UNCHANGED <<analysis, locking, rates,
                   cb, outdata, engine, device_out, out_channels, sample_rate,
                   stream_sr, analyzer, leaked, ghost>>

\* close, lines 442-454: the source is closed, the temporary file removed.
CloseSource ==
    /\ pc = "close_source"
    /\ sf' = IF sf.file # 0 THEN [sf EXCEPT !.open = FALSE] ELSE sf
    /\ tmp_wav_path' = FALSE
    /\ End("close")
    /\ UNCHANGED <<analysis, locking, rates,
                   cb, outdata, current_audio_path, sf_sr, playing, eof,
                   block_size, rb_size, ring, rb_write, volume, device, pre,
                   ghost>>

\* Analyzer.compute(x), lines 16-35, on the Analyzer `an`.
Compute(x) ==
    /\ an.calls < MaxCalls
    /\ LET buf == ShiftIn(an.buffer, x)
           mag == Magnitudes(buf)
           num == 9 * an.flux_num + FluxSum(mag, an.prev_mag) * Pow10(an.calls)
       IN /\ an' = [buffer |-> buf, prev_mag |-> mag, flux_num |-> num,
                    calls |-> an.calls + 1,
                    heard |-> (an.heard \/ ~AllZero(x))]
          /\ an_out' = [spectrum |-> [k \in 1..AnBins |-> Log1p(mag[k])],
                        flux_num |-> num]
    /\ UNCHANGED <<pc, arg, ret, cb, outdata, engine, device, pre, rates,
                   locking, ghost, cb_since>>

\* ---------------------------------------------------- audio thread
\* A callback step met the GUI thread between two calls.
Seen == cb_since \/ pc = "idle"

\* The streams that are open: 0 is the one the engine holds.
StreamAt(k) == IF k = 0 THEN out_stream ELSE leaked[k]
Started == {k \in 0..Len(leaked) : StreamAt(k).state = "active"}

\* A callback that reads whenever a source is there, Playing or not.
CbEnterAnyway ==
    /\ cb.pc = "idle"
    /\ \E k \in Started :
       LET sr_stream == IF stream_sr # 0 THEN stream_sr
                        ELSE IF sample_rate # 0 THEN sample_rate ELSE DefaultSr
           sr_src == IF sf_sr # 0 THEN sf_sr ELSE sr_stream
       IN cb' = [pc |-> IF sf.file # 0 THEN "read" ELSE "finish",
                 sr_stream |-> sr_stream, sr_src |-> sr_src,
                 frames |-> StreamAt(k).blocksize, ch |-> StreamAt(k).ch,
                 block |-> Zeros(StreamAt(k).blocksize),
                 zero_read |-> FALSE, in_load |-> replacing, own |-> k]
    /\ outdata' = NoOut
    /\ cb_since' = Seen
    /\ UNCHANGED <<analysis, locking, rates, pc, arg, ret, engine, device, pre,
                   ghost>>

\* _audio_callback, lines 131-157: the rates, the zero block and the test
\* of the transport, in a callback of a started stream.
CbEnter ==
    /\ cb.pc = "idle"
    /\ \E k \in Started :
       LET sr_stream == IF stream_sr # 0 THEN stream_sr
                        ELSE IF sample_rate # 0 THEN sample_rate ELSE DefaultSr
           sr_src == IF sf_sr # 0 THEN sf_sr ELSE sr_stream
           go == playing /\ sf.file # 0
       IN cb' = [pc |-> IF go THEN "read" ELSE "finish",
                 sr_stream |-> sr_stream, sr_src |-> sr_src,
                 frames |-> StreamAt(k).blocksize, ch |-> StreamAt(k).ch,
                 block |-> Zeros(StreamAt(k).blocksize),
                 zero_read |-> FALSE, in_load |-> replacing, own |-> k]
    /\ outdata' = NoOut
    /\ cb_since' = Seen
    /\ UNCHANGED <<analysis, locking, rates,
                   pc, arg, ret, engine, device, pre, ghost>>

\* Lines 160-190: the block made of the frames read.
BlockOf(raw, c) ==
    IF Len(raw) = 0 THEN c.block
    ELSE PadTrim(Resample(raw, c.frames, c.sr_stream, c.sr_src), c.frames)

\* The GUI thread is inside a seek of the source.
InSeek == pc \in {"seek_call", "load_seek"}

\* The position a read of the source starts from: the position of the
\* handle; a read that runs inside a seek call races with it and may start
\* from the frame the seek asks for.
ReadStarts == IF InSeek THEN {sf.pos, arg} ELSE {sf.pos}

\* _audio_callback, lines 159-190: the read of the source.  A closed
\* source raises; the exception leaves the callback, which PortAudio
\* answers by aborting the stream.
CbRead ==
    /\ cb.pc = "read"
    /\ \/ /\ ~sf.open
          /\ cb' = IdleCb
          /\ outdata' = [status |-> "raised", frames |-> 0, silent |-> FALSE,
                         zero_read |-> FALSE]
          /\ IF cb.own = 0
             THEN /\ out_stream' = [out_stream EXCEPT !.state = "aborted"]
                  /\ leaked' = leaked
             ELSE /\ leaked' = [leaked EXCEPT ![cb.own].state = "aborted"]
                  /\ out_stream' = out_stream
          /\ UNCHANGED <<sf, eof, playing>>
       \/ /\ sf.open
          /\ \E p0 \in ReadStarts :
             LET need == NeedSrc(cb.frames, cb.sr_stream, cb.sr_src)
                 raw == ReadData([sf EXCEPT !.pos = p0], need)
             IN /\ sf' = [sf EXCEPT !.pos = p0 + Len(raw)]
                /\ eof' = IF Len(raw) = 0 THEN TRUE ELSE eof
                /\ playing' = IF Len(raw) = 0 THEN FALSE ELSE playing
                /\ cb' = [cb EXCEPT !.pc = "finish", !.block = BlockOf(raw, cb),
                                    !.zero_read = (Len(raw) = 0)]
          /\ UNCHANGED <<outdata, out_stream, leaked>>
    /\ seek_raced' = (seek_raced \/ InSeek)
    /\ cb_since' = Seen
    /\ UNCHANGED <<analysis, locking, rates,
                   pc, arg, ret, current_audio_path, sf_sr, tmp_wav_path,
                   block_size, rb_size, ring, rb_write, volume, device_out,
                   out_channels, sample_rate, stream_sr, analyzer, pre,
                   replacing>>

\* _audio_callback, lines 192-218: volume, the push of the mono block into
\* the ring, the write of the output buffer.
CbFinish ==
    /\ cb.pc = "finish"
    /\ LET stereo == ApplyVolume(cb.block, volume)
           srs == [i \in 1..Len(stereo) |->
                      IF stereo[i] # 0 THEN cb.sr_stream ELSE 0]
       IN /\ ring' = RingPush(ring, rb_size, rb_write, stereo, cb.frames)
          /\ ring_sr' = RingPush(ring_sr, rb_size, rb_write, srs, cb.frames)
          /\ rb_write' = CursorAfter(rb_write, rb_size, cb.frames)
          /\ outdata' = [status |-> "written", frames |-> Len(stereo),
                         silent |-> AllZero(stereo), zero_read |-> cb.zero_read]
    /\ cb' = IdleCb
    /\ cb_since' = Seen
    /\ UNCHANGED <<analysis, locking,
                   fed, pc, arg, ret, current_audio_path, sf, sf_sr, playing, eof,
                   tmp_wav_path, block_size, rb_size, volume, device, pre,
                   ghost>>

\* Lines 192-200: volume, the mono block, the lock is taken.
CbLock ==
    /\ cb.pc = "finish"
    /\ lock = "free"
    /\ lock' = "audio"
    /\ wr' = 0
    /\ cb' = [cb EXCEPT !.pc = "write", !.block = ApplyVolume(cb.block, volume)]
    /\ cb_since' = Seen
    /\ UNCHANGED <<analysis, rates, gf, pc, arg, ret, outdata, engine, device,
                   pre, ghost>>

\* Lines 201-209: one sample is written to the ring.
CbWrite ==
    /\ cb.pc = "write"
    /\ wr < Min(cb.frames, rb_size)
    /\ ring' = [ring EXCEPT ![(rb_write + wr) % rb_size] = cb.block[wr + 1]]
    /\ ring_sr' = [ring_sr EXCEPT ![(rb_write + wr) % rb_size] =
                      IF cb.block[wr + 1] # 0 THEN cb.sr_stream ELSE 0]
    /\ wr' = wr + 1
    /\ cb_since' = Seen
    /\ UNCHANGED <<analysis, fed, lock, gf, pc, arg, ret, cb, outdata,
                   current_audio_path, sf, sf_sr, playing, eof, tmp_wav_path,
                   block_size, rb_size, rb_write, volume, device, pre, ghost>>

\* Lines 210-218: the cursor moves on, the lock is released, the output
\* buffer is written.
CbUnlock ==
    /\ cb.pc = "write"
    /\ wr = Min(cb.frames, rb_size)
    /\ rb_write' = CursorAfter(rb_write, rb_size, cb.frames)
    /\ lock' = "free"
    /\ wr' = 0
    /\ outdata' = [status |-> "written", frames |-> Len(cb.block),
                   silent |-> AllZero(cb.block), zero_read |-> cb.zero_read]
    /\ cb' = IdleCb
    /\ cb_since' = Seen
    /\ UNCHANGED <<analysis, rates, gf, pc, arg, ret, current_audio_path, sf,
                   sf_sr, playing, eof, tmp_wav_path, block_size, rb_size,
                   ring, volume, device, pre, ghost>>

\* ------------------------------------------------------ specifications
\* The calls of the transport, in any order, each running to its end.
Transport ==
    \/ \E p \in Paths : LoadClose(p)
    \/ LoadTmp
    \/ LoadOpen
    \/ LoadSr
    \/ LoadStop
    \/ LoadSeekRet
    \/ LoadReopen
    \/ LoadRing
    \/ Play
    \/ Pause
    \/ \E t \in SeekTimes : SeekCall(t)
    \/ SeekRet
    \/ SeekRing
    \/ GetFrame

\* The audio thread.
Callback ==
    \/ CbEnter
    \/ CbRead
    \/ CbFinish

\* The transport and the callback on the configuration the engine was
\* constructed with.
Next ==
    \/ Transport
    \/ Callback

Spec == Init /\ [][Next]_vars

\* The same with set_volume.
NextVolume ==
    \/ Transport
    \/ Callback
    \/ \E v \in Volumes : SetVolume(v)

SpecVolume == Init /\ [][NextVolume]_vars

\* The calls that reopen or close the stream, on every device.  The
\* transport is never set Playing here: the callbacks of the streams write
\* silence and never read the source.
NextStream ==
    \/ \E p \in Paths : LoadClose(p)
    \/ LoadTmp
    \/ LoadOpen
    \/ LoadSr
    \/ LoadStop
    \/ LoadSeekRet
    \/ LoadReopen
    \/ LoadRing
    \/ \E b \in BlockSizes : SetBlockSize(b)
    \/ SbsReopen
    \/ SetLatency
    \/ \E d \in AllDevices : SetOutputDevice(d)
    \/ CloseStream
    \/ CloseSource
    \/ CbEnter
    \/ CbFinish

SpecStream == Init /\ [][NextStream]_vars

\* The transport and the callback with close().
NextClose ==
    \/ Transport
    \/ Callback
    \/ CloseStream
    \/ CloseSource

SpecClose == Init /\ [][NextClose]_vars

\* An Analyzer fed any blocks.
NextAnalyzer == \E x \in Blocks : Compute(x)

SpecAnalyzer == Init /\ [][NextAnalyzer]_vars

\* Playback across changes of the output device and of the latency, with
\* the record of what get_frame passes to the Analyzer.
NextRate ==
    \/ \E p \in Paths : LoadClose(p)
    \/ LoadTmp
    \/ LoadOpen
    \/ LoadSr
    \/ LoadStop
    \/ LoadSeekRet
    \/ LoadReopen
    \/ LoadRing
    \/ Play
    \/ \E t \in SeekTimes : SeekCall(t)
    \/ SeekRet
    \/ SeekRing
    \/ GetFrameCompute
    \/ SetLatency
    \/ \E d \in Devices : SetOutputDevice(d)
    \/ Callback

SpecRate == Init /\ [][NextRate]_vars

\* Playback with get_frame, the resets of the ring and set_block_size
\* taken step by step under self._lock.
GuiLocked ==
    \/ GetFrameCopy
    \/ GetFrameUnlock
    \/ RingResetFill
    \/ RingResetUnlock
    \/ SetBlockSizeResize
    \/ SetBlockSizeUnlock

CallbackLocked ==
    \/ CbEnter
    \/ CbRead
    \/ CbWrite
    \/ CbUnlock

NextLock ==
    \/ \E p \in Paths : LoadClose(p)
    \/ LoadTmp
    \/ LoadOpen
    \/ LoadSr
    \/ LoadStop
    \/ LoadSeekRet
    \/ LoadReopen
    \/ Play
    \/ \E t \in SeekTimes : SeekCall(t)
    \/ SeekRet
    \/ GetFrameLock
    \/ GetFrameReturn
    \/ RingResetLock
    \/ \E b \in BlockSizes : SetBlockSizeBegin(b)
    \/ SetBlockSizeLock
    \/ SbsReopen
    \/ GuiLocked
    \/ CbLock
    \/ CallbackLocked

SpecLock == Init /\ [][NextLock]_vars

\* The same for one native file, with the scheduling of the
\* threads: a callback that has begun goes on, a thread that holds the lock
\* goes on, and a callback that finds the lock free again and again gets it
\* in the end.
NextLockFair ==
    \/ LoadClose(1)
    \/ LoadTmp
    \/ LoadOpen
    \/ LoadSr
    \/ LoadStop
    \/ LoadSeekRet
    \/ LoadReopen
    \/ Play
    \/ \E t \in SeekTimes : SeekCall(t)
    \/ SeekRet
    \/ GetFrameLock
    \/ GetFrameReturn
    \/ RingResetLock
    \/ \E b \in BlockSizes : SetBlockSizeBegin(b)
    \/ SetBlockSizeLock
    \/ SbsReopen
    \/ GuiLocked
    \/ CbLock
    \/ CallbackLocked

SpecLockFair ==
    /\ Init /\ [][NextLockFair]_vars
    /\ WF_vars(CallbackLocked)
    /\ WF_vars(GuiLocked)
    /\ SF_vars(CbLock)

\* The transport and the callback with the calls that reconfigure the
\* stream.
NextConfig ==
    \/ Transport
    \/ Callback
    \/ \E b \in BlockSizes : SetBlockSize(b)
    \/ SbsReopen
    \/ \E d \in Devices : SetOutputDevice(d)

SpecConfig == Init /\ [][NextConfig]_vars

\* The transport and the callback, with the scheduling of the audio
\* thread: PortAudio keeps invoking the callback of a started stream, and an
\* invocation that began runs to its end.
SpecFair == Init /\ [][Next]_vars /\ WF_vars(Callback)

\* ------------------------------------------------------------- claims
\* get_frame has just returned and no callback step followed it: Frame is
\* what it returned.
Returned == ret \in {"get_frame", "get_frame_first"} /\ ~cb_since

\* C1: a callback that begins once load_file has started to replace the
\* source, and before the play() that follows the load, finds the
\* transport not Playing: it never goes on to read the source and its
\* block is silence.
C1_LoadHidesSourceFromCallback ==
    cb.in_load => (cb.pc # "read" /\ AllZero(cb.block))

\* C2: no read of the source by the callback runs while seek_seconds is
\* inside the source's seek call.
C2_SeekExcludesRead == pc = "seek_call" => ~seek_raced

\* C3: no invocation of the callback ends by raising: each one ends with
\* the whole output buffer written.
C3_CallbackNeverRaises ==
    outdata.status # "raised"

\* C4: when load_file has raised because no source could be made from the
\* path, the source (still open, at its old position), current_audio_path,
\* the Playing and is_eof flags and the temporary file are those of before
\* the call.
C4_FailedLoadKeepsState ==
    ret = "load_file_raised" =>
        /\ sf = pre.sf
        /\ current_audio_path = pre.path
        /\ playing = pre.playing
        /\ eof = pre.eof
        /\ tmp_wav_path = pre.tmp

\* C5: get_frame returns exactly block_size samples and a spectrum of
\* exactly fft_size/2 + 1 bins, after any sequence of load_file,
\* seek_seconds, set_block_size, set_output_device_by_index and callbacks.
C5_FrameShape ==
    Returned =>
        /\ Len(Frame.samples) = block_size
        /\ Frame.spectrum_len = FftSize \div 2 + 1

\* C5 witness: a get_frame on the largest block whose copy wraps around
\* the end of the ring and holds a sample that is not zero.
C5_Witness ==
    /\ Returned
    /\ block_size = MaxBlock
    /\ rb_write % rb_size < block_size
    /\ rb_write % rb_size > 0
    /\ ~AllZero(Frame.samples)

\* C6: the get_frame that directly follows a load_file or a seek_seconds
\* (on a loaded source) that returned, with no callback step in between,
\* returns samples that are all zero.
C6_ZeroAfterReset ==
    (ret = "get_frame_first" /\ ~cb_since) => AllZero(Frame.samples)

\* C6 witness: such a get_frame while the transport is Playing and a
\* callback holds a block that is not silence, about to push it.
C6_Witness ==
    /\ ret = "get_frame_first" /\ ~cb_since
    /\ playing
    /\ cb.pc = "finish" /\ ~AllZero(cb.block)

\* C7: when load_file has returned, the source of the path given is the
\* current one and is open, its position is frame 0, the transport is not
\* Playing, is_eof is false and the ring holds only zeros.
C7_LoadPostState ==
    (ret = "load_file" /\ ~cb_since) =>
        /\ sf.file = current_audio_path /\ sf.open
        /\ sf.pos = 0
        /\ ~playing
        /\ ~eof
        /\ \A j \in DOMAIN ring : ring[j] = 0

\* C8: the source's seek inside seek_seconds(t) leaves the position at
\* min(max(0, trunc(t * rate)), frame_count), a frame of the file; is_eof is
\* then cleared and the Playing flag is what it was.
C8_SeekEffect ==
    [][(pc = "seek_call" /\ pc' = "seek_ring") =>
           /\ arg \in 0..FileLen(sf.file)
           /\ sf'.pos = arg
           /\ ~eof'
           /\ playing' = playing]_vars

\* C9: play() leaves the transport Playing exactly when a source is loaded
\* and changes no engine state when none is; pause() leaves it not
\* Playing; neither changes the source (its position) or is_eof.
C9_PlayPause ==
    [][/\ Play => /\ playing' = (sf.file # 0)
                  /\ sf' = sf /\ eof' = eof
                  /\ sf.file = 0 => UNCHANGED <<engine, device>>
       /\ Pause => /\ ~playing'
                   /\ sf' = sf /\ eof' = eof]_vars

\* C9 witness: play() has just set a source at its end, with is_eof set,
\* Playing.
C9_Witness ==
    /\ ret = "play" /\ ~cb_since
    /\ playing /\ eof /\ sf.pos > 0

\* The cells of the ring the next push of `frames` samples writes.
InWindow(j, frames) == (j - (rb_write % rb_size)) % rb_size < Min(frames, rb_size)

\* C10: the read of a Playing callback that returns no frame sets is_eof,
\* clears Playing and leaves the block silent; that callback then writes
\* silence to the whole output buffer and zeros into the cells of the ring
\* that follow the cursor, and alters no other cell.
C10_EndOfStream ==
    [][/\ (CbRead /\ cb'.zero_read) =>
              /\ eof' /\ ~playing'
              /\ cb'.block = Zeros(cb.frames)
              /\ ring' = ring
       /\ (CbFinish /\ cb.zero_read) =>
              /\ outdata'.status = "written"
              /\ outdata'.frames = cb.frames /\ outdata'.silent
              /\ \A j \in DOMAIN ring :
                     ring'[j] = IF InWindow(j, cb.frames) THEN 0 ELSE ring[j]]_vars

\* C10 witness: a callback that read no frame has ended, is_eof is set, the
\* transport is not Playing, and the ring still holds a sample that is not
\* zero, pushed before.
C10_Witness ==
    /\ outdata.status = "written" /\ outdata.zero_read
    /\ eof /\ ~playing
    /\ \E j \in DOMAIN ring : ring[j] # 0

\* C11: once play() has set a source that is open Playing on a started
\* stream, then, the callbacks being invoked again and again, either is_eof
\* becomes true with the transport not Playing and the source at its frame
\* count, or a call other than play and get_frame (pause, seek_seconds,
\* load_file) intervenes.
C11_PlaysToEnd ==
    (ret = "play" /\ playing /\ sf.open /\ out_stream.state = "active")
        ~> \/ eof /\ ~playing /\ sf.pos = FileLen(sf.file)
           \/ ret \notin {"play", "get_frame", "get_frame_first"}

\* C11 witness: the end of the longest file was reached by callbacks after
\* play(), no other call having intervened.
C11_Witness ==
    /\ ret = "play" /\ outdata.status = "written" /\ outdata.zero_read
    /\ eof /\ ~playing
    /\ sf.file = 1 /\ sf.pos = FileLen(sf.file)

\* C12: the engine's output channel count never exceeds the
\* max_output_channels the selected device advertises (a device that cannot
\* be queried advertises none).
C12_ChannelsWithinDevice ==
    QueryOk(device_out) => out_channels <= MaxOutputChannels(device_out)

\* C13: set_output_device_by_index to a device whose max_output_channels is
\* 1 leaves out_channels = 1 and a started stream of 1 channel on that
\* device, whatever the channel count was before.
C13_MonoDevice ==
    [][\A d \in AllDevices :
          (SetOutputDevice(d) /\ QueryOk(d) /\ MaxOutputChannels(d) = 1) =>
              /\ out_channels' = 1
              /\ out_stream'.state = "active"
              /\ out_stream'.dev = d /\ out_stream'.ch = 1]_vars

\* C13 witness: the mono device was selected while a stereo source rate was
\* the target, and a stereo stream opened before is still around.
C13_Witness ==
    /\ ret = "set_output_device" /\ device_out = 2
    /\ out_channels = 1 /\ out_stream.state = "active" /\ out_stream.ch = 1
    /\ sf_sr = 48000
    /\ Len(leaked) = 1 /\ leaked[1].ch = 2

\* C14: at most one output stream is open at any time, the stream the
\* engine holds and the streams it replaced counted together.
C14_OneOpenStream ==
    Cardinality({k \in 0..Len(leaked) : IsOpen(StreamAt(k))}) <= 1

\* The calls that reopen the stream, as they end.
ReconfigReturned == {"load_file", "set_output_device", "set_block_size",
                     "set_latency"}
ReconfigRaised == {"load_file_stream_raised", "set_output_device_raised",
                   "set_block_size_raised", "set_latency_raised"}

\* C15: when a reconfiguring call has returned, or has raised out of
\* _open_output_stream, the stream the engine holds is started or closed;
\* when it raised, the stream is closed.
C15_StartedOrClosed ==
    (ret \in ReconfigReturned \cup ReconfigRaised /\ ~cb_since) =>
        /\ out_stream.state \in {"active", "closed"}
        /\ ret \in ReconfigRaised => out_stream.state = "closed"

\* This step is the _open_output_stream of load_file, set_block_size,
\* set_latency_seconds or set_output_device_by_index (a step of the GUI
\* thread leaves cb alone, a step of the callback changes it).
ReopenStep ==
    /\ cb' = cb
    /\ \/ pc = "load_reopen"
       \/ pc = "sbs_reopen"
       \/ /\ pc = "idle"
          /\ ret' \in {"set_latency", "set_latency_raised",
                       "set_output_device", "set_output_device_raised"}

\* The rate that step asks _open_output_stream for.
RequestedSr ==
    IF pc = "load_reopen" THEN sf_sr
    ELSE IF pc = "sbs_reopen" THEN out_stream.sr
    ELSE IF ret' \in {"set_latency", "set_latency_raised"} THEN out_stream.sr
    ELSE TargetSr

\* The validation of lines 236-241 fails in that step.
ValidationFails ==
    /\ ReopenStep
    /\ ~SettingsOk(device_out', RequestedSr, PickOutputChannels(device_out'))

\* C16 as claimed: when the validation of the rate asked for fails, the
\* engine goes to the device's default rate (48000 when the device cannot
\* be queried) and to 1 channel, and so does the stream it opens.
C16_FallbackMono ==
    [][ValidationFails =>
          /\ sample_rate' = FallbackSr(device_out') /\ out_channels' = 1
          /\ ret' \notin ReconfigRaised =>
                 /\ out_stream'.sr = FallbackSr(device_out')
                 /\ out_stream'.ch = 1]_vars

\* The channel count after a failed validation: the count picked for the
\* device when it validates at the fall-back rate, 1 when it does not.
FallbackCh(d) ==
    IF SettingsOk(d, FallbackSr(d), PickOutputChannels(d))
    THEN PickOutputChannels(d) ELSE 1

\* C16 as amended: when the validation of the rate asked for fails, the
\* engine goes to the device's default rate (48000 when the device cannot
\* be queried), keeps the channel count picked for the device when that
\* pair validates and goes to 1 channel only when it does not; the stream
\* it opens has that rate and that channel count.
C16_FallbackChannels ==
    [][ValidationFails =>
          /\ sample_rate' = FallbackSr(device_out')
          /\ out_channels' = FallbackCh(device_out')
          /\ ret' \notin ReconfigRaised =>
                 /\ out_stream'.state = "active"
                 /\ out_stream'.sr = FallbackSr(device_out')
                 /\ out_stream'.ch = FallbackCh(device_out')]_vars

\* C16 witness: load_file of a 44100 source on the stereo device that runs
\* at 48000 only has returned: the stream is at 48000 and stereo.
C16_Witness ==
    /\ ret = "load_file" /\ device_out = 1 /\ sf_sr = 44100
    /\ sample_rate = 48000 /\ out_channels = 2
    /\ out_stream.state = "active" /\ out_stream.sr = 48000
    /\ out_stream.ch = 2

\* C17: when set_block_size(b), called while Playing, has returned with
\* the transport still Playing and no callback of the reopened stream has
\* run, the ring has the capacity of block size b and get_frame returns b
\* zeros.
C17_BlockSizeResetsRing ==
    (ret = "set_block_size" /\ ~cb_since /\ playing) =>
        /\ rb_size = RingSize(block_size)
        /\ Frame.samples = Zeros(block_size)

\* C18: every step leaves the volume the callback multiplies into the
\* output within [0, 1] (the unit of the model's volumes is 1.0), and only a
\* step of set_volume changes it.
C18_VolumeInUnitRange ==
    [][/\ volume' >= 0 /\ volume' <= 1
       /\ volume' # volume => \E v \in Volumes : SetVolume(v)]_vars

\* The engine as close() leaves it.
Closed ==
    /\ out_stream.state = "closed"
    /\ sf.file # 0 => ~sf.open
    /\ ~tmp_wav_path

ZeroBlocks == {x \in Blocks : AllZero(x)}

\* C20 as claimed: compute on an all-zero block returns a flux of zero and
\* a spectrum with no negative bin, whatever the Analyzer was fed before.
C20_SilentBlockNoFlux ==
    [][\A x \in ZeroBlocks :
          Compute(x) =>
              /\ an_out'.flux_num = 0
              /\ \A k \in 1..AnBins : an_out'.spectrum[k] >= 0]_vars

\* C20 as amended: compute on an all-zero block returns a spectrum with no
\* negative bin, and a flux of zero when every block passed to the Analyzer
\* before was all zero too.
C20_SilentHistoryNoFlux ==
    [][\A x \in ZeroBlocks :
          Compute(x) =>
              /\ ~an.heard => an_out'.flux_num = 0
              /\ \A k \in 1..AnBins : an_out'.spectrum[k] >= 0]_vars

\* C20 witness: the Analyzer has computed several blocks, all of them zero,
\* and returned a flux of zero.
C20_Witness ==
    /\ an.calls = MaxCalls /\ ~an.heard
    /\ an_out.flux_num = 0 /\ AllZero(an_out.spectrum)

C22_ReconfigResetsRing ==
    (ret \in ReconfigReturned /\ ~cb_since) =>
        /\ AllZero(ring) /\ rb_write = 0
        /\ AllZero(Frame.samples)

\* C23: between the calls the Analyzer's sample rate is the engine's
\* sample_rate and the _stream_sr the callback uses, and the samples that
\* get_frame has passed to the Analyzer in place were all produced at one
\* rate.
C23_OneRatePerAnalyzer ==
    /\ pc = "idle" =>
          analyzer.sample_rate = sample_rate /\ sample_rate = stream_sr
    /\ Cardinality(fed) <= 1

C25_OneFilePair ==
    [][(cb.pc = "read" /\ cb'.pc = "finish") => cb.sr_src = Rate(sf.file)]_vars

\* A callback pushes its block into the ring in this step.
Pushes == cb.pc = "finish" /\ cb'.pc = "idle"
\* The samples it pushes.
Pushed == SubSeq(ApplyVolume(cb.block, volume), 1, Min(cb.frames, rb_size))
\* The last n of a sequence.
LastOf(q, n) == SubSeq(q, Len(q) - n + 1, Len(q))

\* C26: each push of a callback moves the block get_frame returns on by the
\* samples pushed: it is the last block_size of what it was, followed by
\* those samples.  From the zeros a reset leaves, get_frame thus returns the
\* last min(k, block_size) of the k samples pushed since, in the order
\* written, at the tail of a block of zeros, wrapped in the ring or not.
C26_LastSamplesInOrder ==
    [][Pushes =>
          Frame'.samples = LastOf(Frame.samples \o Pushed, block_size)]_vars

\* C27: for every callback the ring index written next is the previous
\* index plus min(frames, capacity), modulo the capacity, also where the
\* stored cursor wraps.
C27_IndexContiguous ==
    [][Pushes =>
          rb_write' % rb_size =
              ((rb_write % rb_size) + Min(cb.frames, rb_size)) % rb_size]_vars

\* A callback begins in this step, with the transport not Playing or with
\* no source loaded.
EntersIdle == cb.pc = "idle" /\ cb'.pc # "idle" /\ ~(playing /\ sf.file # 0)

\* C28: a callback that begins while the transport is not Playing or no
\* source is loaded goes on with a block of zeros without reading; with
\* such a block it writes zero to every output sample and pushes
\* min(frames, capacity) zeros into the ring; it leaves the source
\* position, is_eof, Playing and the volume as they are.
C28_SilentCallback ==
    [][/\ EntersIdle =>
            /\ cb'.pc = "finish" /\ cb'.block = Zeros(cb'.frames)
            /\ UNCHANGED <<sf, eof, playing, volume>>
       /\ (Pushes /\ AllZero(cb.block)) =>
            /\ outdata'.status = "written" /\ outdata'.silent
            /\ outdata'.frames = cb.frames
            /\ \A j \in 0..(rb_size - 1) :
                  ring'[j] = IF InWindow(j, cb.frames) THEN 0 ELSE ring[j]
            /\ rb_write' = CursorAfter(rb_write, rb_size, cb.frames)
            /\ UNCHANGED <<sf, eof, playing, volume>>]_vars

\* C28 witness: after a pause in the middle of the file, at a volume other
\* than 1, a callback that did not read has written silence; the pushes
\* have gone once around the ring, which still holds a sample played before
\* the pause.
C28_Witness ==
    /\ ret = "pause" /\ cb_since /\ cb.pc = "idle"
    /\ outdata.status = "written" /\ outdata.silent /\ ~outdata.zero_read
    /\ ~playing /\ ~eof /\ sf.file = 1 /\ sf.pos = 1 /\ volume = 2
    /\ ~AllZero(ring) /\ rb_write > rb_size

\* The GUI thread is inside a copy or a reset of the ring.
InRingSection ==
    pc \in {"gf_copy", "load_fill", "seek_fill", "sbs_resize", "sbs_unlock"}

\* C29: a thread holds the ring lock only inside its write, copy or reset
\* of the ring (the callback inside its write; the GUI thread not while it
\* opens or closes a stream, opens or seeks the source or runs the
\* Analyzer), and every callback that has begun comes to its end.
C29_LockBoundedNoDeadlock ==
    /\ [](/\ lock = "audio" <=> cb.pc = "write"
          /\ lock = "gui" <=> InRingSection)
    /\ (cb.pc # "idle") ~> (cb.pc = "idle")

\* C29 witness: a callback with a block to push waits for the lock while
\* set_block_size holds it, the new ring in place.
C29_Witness ==
    /\ lock = "gui" /\ pc = "sbs_unlock"
    /\ cb.pc = "finish" /\ ~AllZero(cb.block)

\* C30: in every reachable state is_eof set implies that the transport is
\* not Playing.
C30_EofNotPlaying == eof => ~playing

=============================================================================
